---------------------------- MODULE Spec2Model ----------------------------
(***************************************************************************)
(* Block header of the thor ledger (src/block/header.go): the immutable    *)
(* header value, its number-embedding hash, its signing hash, its lazily   *)
(* memoized hash and signer, signature attachment and the RLP codec entry  *)
(* points.                                                                 *)
(*                                                                         *)
(* A byte is an integer 0..255, a cry.Hash a sequence of 32 bytes, an      *)
(* acc.Address a sequence of 20 bytes.  A uint32 is kept as two 16-bit     *)
(* limbs [hi, lo] (its value is hi * 65536 + lo), with the arithmetic of   *)
(* the machine width: the model checker's integers stop at 2^31 - 1.       *)
(***************************************************************************)
EXTENDS Integers, Sequences, FiniteSets, TLC

\* ------------------------------------------------------------------ bounds
\* Header instances the heap can hold.
MaxHeaders == 3
\* Goroutines that call into one heap concurrently (SpecConc).
NumThreads == 2
\* DecodeRLP calls in one run.
MaxDecodes == 1

\* ------------------------------------------------------- program constants
\* len(cry.Hash{}): a 32-byte digest.
HashLength == 32
\* len(acc.Address{}): a 20-byte account identifier.
AddressLength == 20

Rep(b, n) == [k \in 1..n |-> b]

\* cry.Hash{}: the zero hash, the genesis sentinel of Header.Number.
ZeroHash == Rep(0, HashLength)

\* acc.Address{}: the zero value of a freshly allocated address.
ZeroAddress == Rep(0, AddressLength)

\* The sum of the bytes b[lo .. hi].
RECURSIVE SumRange(_, _, _)
SumRange(b, lo, hi) ==
    IF lo > hi THEN 0
    ELSE IF lo = hi THEN b[lo]
    ELSE LET m == (lo + hi) \div 2
         IN  SumRange(b, lo, m) + SumRange(b, m + 1, hi)

ByteSum(b) == SumRange(b, 1, Len(b))

\* The sum of k * b[k] over b[lo .. hi]: it tells two orders of the same bytes apart.
RECURSIVE MixRange(_, _, _)
MixRange(b, lo, hi) ==
    IF lo > hi THEN 0
    ELSE IF lo = hi THEN lo * b[lo]
    ELSE LET m == (lo + hi) \div 2
         IN  MixRange(b, lo, m) + MixRange(b, m + 1, hi)

ByteMix(b) == Len(b) + MixRange(b, 1, Len(b))

\* ------------------------------------------------------------ uint32 / binary
\* uint32 addition of 1, wrapping at 2^32 as Go's unsigned arithmetic does.
U32Inc(v) ==
    IF v.lo < 65535 THEN [hi |-> v.hi, lo |-> v.lo + 1]
    ELSE IF v.hi < 65535 THEN [hi |-> v.hi + 1, lo |-> 0]
    ELSE [hi |-> 0, lo |-> 0]

\* binary.BigEndian.Uint32(b[:4])
BigEndianUint32(b) ==
    [hi |-> b[1] * 256 + b[2], lo |-> b[3] * 256 + b[4]]

\* Mutation of BigEndianPutUint32: the number written least significant byte first.
LittleEndianPutUint32(b, v) ==
    [b EXCEPT ![1] = v.lo % 256, ![2] = v.lo \div 256,
              ![3] = v.hi % 256, ![4] = v.hi \div 256]

\* binary.BigEndian.PutUint32(b[:4], v): b with its first 4 bytes overwritten.
BigEndianPutUint32(b, v) ==
    [b EXCEPT ![1] = v.hi \div 256, ![2] = v.hi % 256,
              ![3] = v.lo \div 256, ![4] = v.lo % 256]

\* Number extracts the block number from a block hash.
Number(hash) == BigEndianUint32(SubSeq(hash, 1, 4))

\* ------------------------------------------------------------------- RLP
\* Minimal big-endian bytes of a non-negative integer (0 is the empty string).
RECURSIVE UintBytes(_)
UintBytes(n) == IF n = 0 THEN <<>> ELSE UintBytes(n \div 256) \o <<n % 256>>

RECURSIVE BytesUint(_)
BytesUint(b) ==
    IF b = <<>> THEN 0 ELSE BytesUint(SubSeq(b, 1, Len(b) - 1)) * 256 + b[Len(b)]

\* rlp: the header of a string (base 128) or a list (base 192) of n payload bytes.
RlpHead(base, n) ==
    IF n <= 55 THEN <<base + n>>
    ELSE <<base + 55 + Len(UintBytes(n))>> \o UintBytes(n)

\* rlp: a byte string ([]byte, cry.Hash, acc.Address).
RlpString(s) ==
    IF Len(s) = 1 /\ s[1] < 128 THEN s ELSE RlpHead(128, Len(s)) \o s

\* rlp: an unsigned integer (uint64), canonical.
RlpUint(n) == RlpString(UintBytes(n))

\* rlp: bn.Int, an arbitrary-precision non-negative integer, canonical.
RlpBnInt(n) == RlpString(UintBytes(n))

RECURSIVE Flatten(_)
Flatten(ss) == IF ss = <<>> THEN <<>> ELSE ss[1] \o Flatten(Tail(ss))

\* rlp: a list of already encoded items.
RlpList(items) ==
    LET payload == Flatten(items)
    IN  RlpHead(192, Len(payload)) \o payload

\* rlp.Encode(w, &h.content): the ten fields of headerContent in declaration order.
ContentItems(c) ==
    << RlpString(c.ParentHash), RlpUint(c.Timestamp), RlpBnInt(c.TotalScore),
       RlpBnInt(c.GasLimit), RlpBnInt(c.GasUsed), RlpString(c.Beneficiary),
       RlpString(c.TxsRoot), RlpString(c.StateRoot), RlpString(c.ReceiptsRoot),
       RlpString(c.Signature) >>

RlpEncodeContent(c) == RlpList(ContentItems(c))

\* Mutation of SigningItems: the signature encoded as a ninth item.
SigningItemsWithSignature(c) ==
    << RlpString(c.ParentHash), RlpUint(c.Timestamp),
       RlpBnInt(c.GasLimit), RlpBnInt(c.GasUsed), RlpString(c.Beneficiary),
       RlpString(c.TxsRoot), RlpString(c.StateRoot), RlpString(c.ReceiptsRoot),
       RlpString(c.Signature) >>

\* The []interface{} list that HashForSigning encodes.
SigningItems(c) ==
    << RlpString(c.ParentHash), RlpUint(c.Timestamp),
       RlpBnInt(c.GasLimit), RlpBnInt(c.GasUsed), RlpString(c.Beneficiary),
       RlpString(c.TxsRoot), RlpString(c.StateRoot), RlpString(c.ReceiptsRoot) >>

\* rlp.Stream: the item that starts at index p of b.
\* [ok, list, off (first payload index), len (payload bytes), next]
RlpItem(b, p) ==
    LET bad == [ok |-> FALSE, list |-> FALSE, off |-> 0, len |-> 0, next |-> 0]
        mk(isList, off, n) ==
            IF off + n - 1 > Len(b) THEN bad
            ELSE [ok |-> TRUE, list |-> isList, off |-> off, len |-> n, next |-> off + n]
        long(isList, ll) ==
            IF p + ll > Len(b) THEN bad
            ELSE LET sz == SubSeq(b, p + 1, p + ll)
                 IN  IF sz[1] = 0 \/ BytesUint(sz) <= 55 THEN bad
                     ELSE mk(isList, p + 1 + ll, BytesUint(sz))
    IN  IF p < 1 \/ p > Len(b) THEN bad
        ELSE LET x == b[p]
             IN  IF x < 128 THEN mk(FALSE, p, 1)
                 ELSE IF x <= 183 THEN
                     IF x = 129 /\ p + 1 <= Len(b) /\ b[p + 1] < 128 THEN bad
                     ELSE mk(FALSE, p + 1, x - 128)
                 ELSE IF x <= 191 THEN long(FALSE, x - 183)
                 ELSE IF x <= 247 THEN mk(TRUE, p + 1, x - 192)
                 ELSE long(TRUE, x - 247)

\* The items of a list payload b[p .. last], or <<>> with ok = FALSE.
RECURSIVE RlpItems(_, _, _)
RlpItems(b, p, last) ==
    IF p > last THEN [ok |-> TRUE, items |-> <<>>]
    ELSE LET it == RlpItem(b, p)
         IN  IF ~it.ok \/ it.list \/ it.next - 1 > last
             THEN [ok |-> FALSE, items |-> <<>>]
             ELSE LET rest == RlpItems(b, it.next, last)
                  IN  [ok |-> rest.ok,
                       items |-> <<SubSeq(b, it.off, it.off + it.len - 1)>> \o rest.items]

CanonUint(s) == s = <<>> \/ s[1] # 0

\* s.Decode(&content): all ten fields or an error, never a partial content.
RlpDecodeContent(b) ==
    LET bad == [ok |-> FALSE]
        top == RlpItem(b, 1)
    IN  IF ~top.ok \/ ~top.list THEN bad
        ELSE LET r == RlpItems(b, top.off, top.off + top.len - 1)
                 f == r.items
             IN  IF ~r.ok \/ Len(f) # 10 THEN bad
                 ELSE IF \/ Len(f[1]) # HashLength \/ Len(f[6]) # AddressLength
                         \/ Len(f[7]) # HashLength \/ Len(f[8]) # HashLength
                         \/ Len(f[9]) # HashLength
                         \/ Len(f[2]) > 8
                         \/ \E k \in 2..5 : ~CanonUint(f[k])
                      THEN bad
                      ELSE [ok |-> TRUE,
                            content |->
                              [ParentHash |-> f[1], Timestamp |-> BytesUint(f[2]),
                               TotalScore |-> BytesUint(f[3]), GasLimit |-> BytesUint(f[4]),
                               GasUsed |-> BytesUint(f[5]), Beneficiary |-> f[6],
                               TxsRoot |-> f[7], StateRoot |-> f[8],
                               ReceiptsRoot |-> f[9], Signature |-> f[10]]]

\* ------------------------------------------------- external collaborators
\* The digests the hash function returns here: three ordinary ones, and one
\* whose last 28 bytes are all zero.
DigestTable ==
    << <<171, 205, 239, 1>> \o Rep(17, HashLength - 4),
       <<0, 0, 0, 0>> \o Rep(119, HashLength - 4),
       <<222, 173, 190, 239>> \o Rep(0, HashLength - 4),
       <<18, 52, 86, 120>> \o Rep(153, HashLength - 4) >>

\* cry.NewHasher / hw.Sum: a deterministic function from byte strings to 32-byte
\* digests.
Keccak(b) == DigestTable[(ByteMix(b) % Len(DigestTable)) + 1]

\* dsa.Signer(hash, sig): the account recovered from a signature over hash, or
\* an error; the last signature byte is the recovery id, valid when 0 or 1.
DsaSigner(hash, sig) ==
    IF sig = <<>> \/ sig[Len(sig)] > 1
    THEN [ok |-> FALSE, addr |-> ZeroAddress]
    ELSE [ok |-> TRUE,
          addr |-> Rep(1 + ((ByteSum(hash) + ByteSum(sig)) % 255), AddressLength)]

\* ------------------------------------------------------------ header value
\* Header.Number, on a headerContent.
HeaderNumber(c) ==
    IF c.ParentHash = ZeroHash THEN [hi |-> 0, lo |-> 0]
    ELSE U32Inc(Number(c.ParentHash))

\* Mutation of ComputeHash: the digest as it is, its first 4 bytes not overwritten.
ComputeHashUnnumbered(c) == Keccak(RlpEncodeContent(c))

\* Header.Hash, the computation of a cache miss: the digest of the encoded
\* content with its first 4 bytes overwritten by the block number.
ComputeHash(c) ==
    BigEndianPutUint32(Keccak(RlpEncodeContent(c)), HeaderNumber(c))

\* Header.HashForSigning, on a headerContent.
ComputeHashForSigning(c) == Keccak(RlpList(SigningItems(c)))

\* The nine accessors, as one projection of the content.
Projection(c) ==
    [ParentHash |-> c.ParentHash, Timestamp |-> c.Timestamp,
     TotalScore |-> c.TotalScore, GasLimit |-> c.GasLimit, GasUsed |-> c.GasUsed,
     Beneficiary |-> c.Beneficiary, TxsRoot |-> c.TxsRoot,
     StateRoot |-> c.StateRoot, ReceiptsRoot |-> c.ReceiptsRoot]

\* ------------------------------------------------------------------ inputs
Inst == 1..MaxHeaders
Threads == 1..NumThreads

\* A nil pointer (*cry.Hash, *acc.Address); a pointer is <<instance, thread>>,
\* the object that thread allocated for that instance.
NilPtr == <<0, 0>>
\* A nil []byte; buffer 0 is the caller's signature slice, buffer j the backing
\* array owned by header instance j.
NilBuf == 0 - 1
CallerBuf == 0

GoodSig == <<7, 1>>
BadSig == <<7, 5>>
SigPool == {GoodSig, BadSig}

BaseContent ==
    [ParentHash |-> ZeroHash, Timestamp |-> 300, TotalScore |-> 0,
     GasLimit |-> 1000, GasUsed |-> 0, Beneficiary |-> Rep(187, AddressLength),
     TxsRoot |-> Rep(1, HashLength), StateRoot |-> Rep(2, HashLength),
     ReceiptsRoot |-> Rep(3, HashLength), Signature |-> <<>>]

\* The genesis with another total score.
ScoredContent == [BaseContent EXCEPT !.TotalScore = 5]

\* A block whose parent number is the largest uint32.
LastContent == [BaseContent EXCEPT !.ParentHash = Rep(255, HashLength), !.Timestamp = 0]

\* The content of a block built on top of the block with hash parent.
ChildContent(parent) == [BaseContent EXCEPT !.ParentHash = parent, !.Timestamp = 310]

\* Byte strings no header encodes to: empty, an empty list, a truncated header,
\* a header whose timestamp has a leading zero byte.
Malformed ==
    { <<>>, <<192>>,
      SubSeq(RlpEncodeContent(BaseContent), 1, 40),
      RlpList([ContentItems(BaseContent) EXCEPT ![2] = <<130, 0, 7>>]) }

\* ------------------------------------------------------------------- state
VARIABLES
    live,          \* the header instances that exist
    hdr,           \* instance -> Header: content, cache.hash, cache.signer
    bufs,          \* buffer -> the bytes of a signature backing array
    hobj,          \* pointer -> the cry.Hash object it points to, as memory shows it
    sobj,          \* pointer -> the acc.Address object it points to
    th,            \* thread -> the call it is in
    ret,           \* thread -> what its last completed call returned
    hashWrites,    \* instance -> assignments of cache.hash since its content was set
    signerWrites,  \* instance -> assignments of cache.signer since its content was set
    decodes        \* DecodeRLP calls so far

vars == <<live, hdr, bufs, hobj, sobj, th, ret, hashWrites, signerWrites, decodes>>

\* The zero value of Header (new(Header)).
ZeroHeader ==
    [content |-> [ParentHash |-> ZeroHash, Timestamp |-> 0, TotalScore |-> 0,
                  GasLimit |-> 0, GasUsed |-> 0, Beneficiary |-> ZeroAddress,
                  TxsRoot |-> ZeroHash, StateRoot |-> ZeroHash,
                  ReceiptsRoot |-> ZeroHash, Signature |-> NilBuf],
     hash |-> NilPtr, signer |-> NilPtr]

Idle == [pc |-> "idle", h |-> 0, pend |-> {}, val |-> <<>>]
NoRet == [op |-> "none", h |-> 0, val |-> <<>>, err |-> "", ptr |-> NilPtr,
          recovered |-> FALSE]

\* The bytes a []byte refers to.
SigBytes(ref) == IF ref = NilBuf THEN <<>> ELSE bufs[ref]

\* The content of instance i as a value: its signature slice dereferenced.
ContentVal(i) ==
    [hdr[i].content EXCEPT !.Signature = SigBytes(hdr[i].content.Signature)]

\* The slot new(Header) or &Header{} takes next.
Fresh == IF live = Inst THEN 0 ELSE CHOOSE j \in Inst \ live : \A k \in Inst \ live : j <= k

\* A header built from a content value, its signature in the instance's own buffer.
HeaderOf(c, j) ==
    [content |-> [c EXCEPT !.Signature = j], hash |-> NilPtr, signer |-> NilPtr]

\* An unsigned header a block producer assembled from a content value.
Built(c) == [content |-> [c EXCEPT !.Signature = NilBuf], hash |-> NilPtr, signer |-> NilPtr]

\* Three generations: root, a block on root's hash, a block on that block's hash.
Chain(root) ==
    LET c2 == ChildContent(ComputeHash(root))
        c3 == ChildContent(ComputeHash(c2))
    IN  <<root, c2, c3>>

\* The headers a run starts from: two genesis headers that differ in total score
\* only, or a chain of three generations from either genesis or from a block whose
\* parent number is the largest uint32.
Starts ==
    {<<BaseContent, ScoredContent>>, Chain(BaseContent), Chain(ScoredContent), Chain(LastContent)}

Init ==
    /\ \E cs \in Starts :
          /\ live = 1..Len(cs)
          /\ hdr = [i \in Inst |-> IF i <= Len(cs) THEN Built(cs[i]) ELSE ZeroHeader]
    /\ bufs = [b \in {CallerBuf} \cup Inst |-> <<>>]
    /\ hobj = [p \in Inst \X Threads |-> <<>>]
    /\ sobj = [p \in Inst \X Threads |-> <<>>]
    /\ th = [t \in Threads |-> Idle]
    /\ ret = [t \in Threads |-> NoRet]
    /\ hashWrites = [i \in Inst |-> 0]
    /\ signerWrites = [i \in Inst |-> 0]
    /\ decodes = 0

Returns(t, r) == ret' = [ret EXCEPT ![t] = r]

\* --------------------------------------------------------------- accessors
\* ParentHash, Timestamp, ..., ReceiptsRoot: pure projections of the content.
Accessors(t, i) ==
    /\ th[t].pc = "idle" /\ i \in live
    /\ Returns(t, [NoRet EXCEPT !.op = "Accessors", !.h = i,
                                !.val = Projection(hdr[i].content)])
    /\ UNCHANGED <<live, hdr, bufs, hobj, sobj, th, hashWrites, signerWrites, decodes>>

\* Header.Number
NumberCall(t, i) ==
    /\ th[t].pc = "idle" /\ i \in live
    /\ Returns(t, [NoRet EXCEPT !.op = "Number", !.h = i,
                                !.val = HeaderNumber(hdr[i].content)])
    /\ UNCHANGED <<live, hdr, bufs, hobj, sobj, th, hashWrites, signerWrites, decodes>>

\* -------------------------------------------------------------------- Hash
\* Header.Hash, the cache holds a pointer: return what it points to.
HashCached(t, i) ==
    /\ th[t].pc = "idle" /\ i \in live
    /\ hdr[i].hash # NilPtr
    /\ Returns(t, [NoRet EXCEPT !.op = "Hash", !.h = i, !.val = hobj[hdr[i].hash]])
    /\ UNCHANGED <<live, hdr, bufs, hobj, sobj, th, hashWrites, signerWrites, decodes>>

\* Header.Hash, the cache is nil: allocate the hash (zeroed), compute it, and
\* issue the three stores: the digest, the number, the cache pointer.
HashMiss(t, i) ==
    /\ th[t].pc = "idle" /\ i \in live
    /\ hdr[i].hash = NilPtr
    /\ th' = [th EXCEPT ![t] = [pc |-> "hash", h |-> i, pend |-> {"sum", "num", "ptr"},
                                val |-> ComputeHash(ContentVal(i))]]
    /\ hobj' = [hobj EXCEPT ![<<i, t>>] = ZeroHash]
    /\ Returns(t, NoRet)
    /\ UNCHANGED <<live, hdr, bufs, sobj, hashWrites, signerWrites, decodes>>

\* hw.Sum(hash[:0]) reaches memory.
HashSumVisible(t) ==
    /\ th[t].pc = "hash" /\ "sum" \in th[t].pend
    /\ hobj' = [hobj EXCEPT ![<<th[t].h, t>>] =
                   Keccak(RlpEncodeContent(ContentVal(th[t].h)))]
    /\ th' = [th EXCEPT ![t].pend = @ \ {"sum"}]
    /\ UNCHANGED <<live, hdr, bufs, sobj, ret, hashWrites, signerWrites, decodes>>

\* binary.BigEndian.PutUint32(hash[:4], h.Number()) reaches memory, after the
\* digest it overwrites.
HashNumberVisible(t) ==
    /\ th[t].pc = "hash" /\ "num" \in th[t].pend /\ "sum" \notin th[t].pend
    /\ hobj' = [hobj EXCEPT ![<<th[t].h, t>>] =
                   BigEndianPutUint32(@, HeaderNumber(hdr[th[t].h].content))]
    /\ th' = [th EXCEPT ![t].pend = @ \ {"num"}]
    /\ UNCHANGED <<live, hdr, bufs, sobj, ret, hashWrites, signerWrites, decodes>>

\* h.cache.hash = &hash reaches memory: a plain store, ordered with the two
\* stores before it by nothing.
HashCacheVisible(t) ==
    /\ th[t].pc = "hash" /\ "ptr" \in th[t].pend
    /\ hdr' = [hdr EXCEPT ![th[t].h].hash = <<th[t].h, t>>]
    /\ hashWrites' = [hashWrites EXCEPT ![th[t].h] = @ + 1]
    /\ th' = [th EXCEPT ![t].pend = @ \ {"ptr"}]
    /\ UNCHANGED <<live, bufs, hobj, sobj, ret, signerWrites, decodes>>

\* return hash
HashReturn(t) ==
    /\ th[t].pc = "hash" /\ th[t].pend = {}
    /\ Returns(t, [NoRet EXCEPT !.op = "Hash", !.h = th[t].h, !.val = th[t].val])
    /\ th' = [th EXCEPT ![t] = Idle]
    /\ UNCHANGED <<live, hdr, bufs, hobj, sobj, hashWrites, signerWrites, decodes>>

\* Header.HashForSigning
HashForSigning(t, i) ==
    /\ th[t].pc = "idle" /\ i \in live
    /\ Returns(t, [NoRet EXCEPT !.op = "HashForSigning", !.h = i,
                                !.val = ComputeHashForSigning(ContentVal(i))])
    /\ UNCHANGED <<live, hdr, bufs, hobj, sobj, th, hashWrites, signerWrites, decodes>>

\* ----------------------------------------------------------- WithSignature
\* Mutation of WithSignatureHeader: the whole Header copied (cpy := *h), cache
\* pointers included.
WithSignatureSharingCache(h, sig, j) ==
    [h EXCEPT !.content.Signature = IF sig = <<>> THEN NilBuf ELSE j]

\* Mutation of WithSignatureHeader: the signature is the caller's slice itself
\* (cpy.Signature = sig), not a copy of it.
WithSignatureAliasingSig(h, sig, j) ==
    [content |-> [h.content EXCEPT !.Signature = CallerBuf],
     hash |-> NilPtr, signer |-> NilPtr]

\* The Header that h.WithSignature(sig) builds as instance j: a copy of the
\* content, its signature a copy of sig in j's own backing array (nil when sig is
\* empty, as append([]byte(nil), sig...) gives), and no cache.
WithSignatureHeader(h, sig, j) ==
    [content |-> [h.content EXCEPT !.Signature = IF sig = <<>> THEN NilBuf ELSE j],
     hash |-> NilPtr, signer |-> NilPtr]

\* Header.WithSignature(sig), sig the caller's slice, which holds the bytes v.
WithSignature(t, i, v) ==
    /\ th[t].pc = "idle" /\ i \in live
    /\ Fresh # 0
    /\ hdr' = [hdr EXCEPT ![Fresh] = WithSignatureHeader(hdr[i], v, Fresh)]
    /\ bufs' = [bufs EXCEPT ![CallerBuf] = v, ![Fresh] = v]
    /\ live' = live \cup {Fresh}
    /\ Returns(t, [NoRet EXCEPT !.op = "WithSignature", !.h = i, !.val = <<Fresh>>])
    /\ UNCHANGED <<hobj, sobj, th, hashWrites, signerWrites, decodes>>

\* The caller reuses the slice it passed as sig: it zeroes its bytes.
CallerWrite ==
    /\ bufs[CallerBuf] # Rep(0, Len(bufs[CallerBuf]))
    /\ bufs' = [bufs EXCEPT ![CallerBuf] = Rep(0, Len(@))]
    /\ UNCHANGED <<live, hdr, hobj, sobj, th, ret, hashWrites, signerWrites, decodes>>

\* ------------------------------------------------------------------ Signer
\* Mutation of Unsigned: the length test left out.
UnsignedNever(i) == FALSE

\* len(h.content.Signature) == 0
Unsigned(i) == Len(SigBytes(hdr[i].content.Signature)) = 0

\* Header.Signer on an unsigned header: errors.New("not signed").
SignerNotSigned(t, i) ==
    /\ th[t].pc = "idle" /\ i \in live
    /\ Unsigned(i)
    /\ Returns(t, [NoRet EXCEPT !.op = "Signer", !.h = i, !.err = "not signed"])
    /\ UNCHANGED <<live, hdr, bufs, hobj, sobj, th, hashWrites, signerWrites, decodes>>

\* The pointer Signer returns beside a nil error: &cpy, a copy of its own.
SignerResultPtr(t, cached) == <<0, t>>

\* Header.Signer, the cache holds a pointer: return a copy of what it points to.
SignerCached(t, i) ==
    /\ th[t].pc = "idle" /\ i \in live
    /\ ~Unsigned(i)
    /\ hdr[i].signer # NilPtr
    /\ Returns(t, [NoRet EXCEPT !.op = "Signer", !.h = i, !.val = sobj[hdr[i].signer],
                                !.ptr = SignerResultPtr(t, hdr[i].signer)])
    /\ UNCHANGED <<live, hdr, bufs, hobj, sobj, th, hashWrites, signerWrites, decodes>>

\* What dsa.Signer(h.HashForSigning(), h.content.Signature) gives for instance i.
Recovered(i) ==
    DsaSigner(ComputeHashForSigning(ContentVal(i)), SigBytes(hdr[i].content.Signature))

\* Mutation of SignerRecoverFails: the address dsa.Signer returned beside its
\* error is cached before the error is returned.
SignerRecoverFailsCached(t, i) ==
    /\ th[t].pc = "idle" /\ i \in live
    /\ ~Unsigned(i)
    /\ hdr[i].signer = NilPtr
    /\ ~Recovered(i).ok
    /\ sobj' = [sobj EXCEPT ![<<i, t>>] = Recovered(i).addr]
    /\ hdr' = [hdr EXCEPT ![i].signer = <<i, t>>]
    /\ signerWrites' = [signerWrites EXCEPT ![i] = @ + 1]
    /\ Returns(t, [NoRet EXCEPT !.op = "Signer", !.h = i, !.err = "recovery failed",
                                !.recovered = TRUE])
    /\ UNCHANGED <<live, bufs, hobj, th, hashWrites, decodes>>

\* Header.Signer, the cache is nil and recovery fails: the error, nothing cached.
SignerRecoverFails(t, i) ==
    /\ th[t].pc = "idle" /\ i \in live
    /\ ~Unsigned(i)
    /\ hdr[i].signer = NilPtr
    /\ ~Recovered(i).ok
    /\ Returns(t, [NoRet EXCEPT !.op = "Signer", !.h = i, !.err = "recovery failed",
                                !.recovered = TRUE])
    /\ UNCHANGED <<live, hdr, bufs, hobj, sobj, th, hashWrites, signerWrites, decodes>>

\* Header.Signer, the cache is nil and recovery succeeds: dsa.Signer allocates the
\* address (zeroed) and fills it; the store of the cache pointer is issued.
SignerRecovers(t, i) ==
    /\ th[t].pc = "idle" /\ i \in live
    /\ ~Unsigned(i)
    /\ hdr[i].signer = NilPtr
    /\ Recovered(i).ok
    /\ th' = [th EXCEPT ![t] = [pc |-> "signer", h |-> i, pend |-> {"addr", "ptr"},
                                val |-> Recovered(i).addr]]
    /\ sobj' = [sobj EXCEPT ![<<i, t>>] = ZeroAddress]
    /\ Returns(t, NoRet)
    /\ UNCHANGED <<live, hdr, bufs, hobj, hashWrites, signerWrites, decodes>>

\* The recovered address reaches memory.
SignerAddressVisible(t) ==
    /\ th[t].pc = "signer" /\ "addr" \in th[t].pend
    /\ sobj' = [sobj EXCEPT ![<<th[t].h, t>>] = th[t].val]
    /\ th' = [th EXCEPT ![t].pend = @ \ {"addr"}]
    /\ UNCHANGED <<live, hdr, bufs, hobj, ret, hashWrites, signerWrites, decodes>>

\* h.cache.signer = signer reaches memory: a plain store.
SignerCacheVisible(t) ==
    /\ th[t].pc = "signer" /\ "ptr" \in th[t].pend
    /\ hdr' = [hdr EXCEPT ![th[t].h].signer = <<th[t].h, t>>]
    /\ signerWrites' = [signerWrites EXCEPT ![th[t].h] = @ + 1]
    /\ th' = [th EXCEPT ![t].pend = @ \ {"ptr"}]
    /\ UNCHANGED <<live, bufs, hobj, sobj, ret, hashWrites, decodes>>

\* cpy := *signer; return &cpy, nil
SignerReturn(t) ==
    /\ th[t].pc = "signer" /\ th[t].pend = {}
    /\ Returns(t, [NoRet EXCEPT !.op = "Signer", !.h = th[t].h, !.val = th[t].val,
                                !.ptr = SignerResultPtr(t, <<th[t].h, t>>),
                                !.recovered = TRUE])
    /\ th' = [th EXCEPT ![t] = Idle]
    /\ UNCHANGED <<live, hdr, bufs, hobj, sobj, hashWrites, signerWrites, decodes>>

\* --------------------------------------------------------------------- RLP
\* What Header.EncodeRLP writes for header h: rlp.Encode(w, &h.content).
EncodeHeader(h, sig) == RlpEncodeContent([h.content EXCEPT !.Signature = sig])

\* Header.EncodeRLP
EncodeRLP(t, i) ==
    /\ th[t].pc = "idle" /\ i \in live
    /\ Returns(t, [NoRet EXCEPT !.op = "EncodeRLP", !.h = i,
                       !.val = EncodeHeader(hdr[i], SigBytes(hdr[i].content.Signature))])
    /\ UNCHANGED <<live, hdr, bufs, hobj, sobj, th, hashWrites, signerWrites, decodes>>

\* The byte strings a stream handed to DecodeRLP can hold: what EncodeRLP last
\* wrote, or bytes that are no header.
Streams ==
    {ret[u].val : u \in {v \in Threads : ret[v].op = "EncodeRLP"}} \cup Malformed

\* Mutation of DecodedHeader: only the content assigned (h.content = content),
\* the cache pointers of the target kept.
DecodedHeaderKeepingCache(old, c, j) ==
    [content |-> [c EXCEPT !.Signature = j], hash |-> old.hash, signer |-> old.signer]

\* The Header that a successful DecodeRLP assigns to *h, as instance j.
DecodedHeader(old, c, j) == HeaderOf(c, j)

\* Header.DecodeRLP into instance i (an existing one, or new(Header)); no other
\* call is running on i, which the assignment to *h needs.
DecodeRLP(t, i, b) ==
    /\ th[t].pc = "idle"
    /\ decodes < MaxDecodes
    /\ decodes' = decodes + 1
    /\ i \in live \cup {Fresh} /\ i # 0
    /\ \A u \in Threads : th[u].h # i
    /\ LET d == RlpDecodeContent(b)
       IN  IF d.ok
           THEN /\ hdr' = [hdr EXCEPT ![i] = DecodedHeader(hdr[i], d.content, i)]
                /\ bufs' = [bufs EXCEPT ![i] = d.content.Signature]
                /\ hashWrites' = [hashWrites EXCEPT ![i] = 0]
                /\ signerWrites' = [signerWrites EXCEPT ![i] = 0]
                /\ ret' = [u \in Threads |->
                             IF u = t THEN [NoRet EXCEPT !.op = "DecodeRLP", !.h = i, !.val = b]
                             ELSE IF ret[u].h = i THEN NoRet ELSE ret[u]]
           ELSE /\ Returns(t, [NoRet EXCEPT !.op = "DecodeRLP", !.h = i, !.err = "codec"])
                /\ UNCHANGED <<hdr, bufs, hashWrites, signerWrites>>
    /\ live' = live \cup {i}
    /\ UNCHANGED <<hobj, sobj, th>>

\* -------------------------------------------------------------------- runs
Step(t) ==
    \/ \E i \in live : Accessors(t, i)
    \/ \E i \in live : NumberCall(t, i)
    \/ \E i \in live : HashCached(t, i)
    \/ \E i \in live : HashMiss(t, i)
    \/ HashSumVisible(t)
    \/ HashNumberVisible(t)
    \/ HashCacheVisible(t)
    \/ HashReturn(t)
    \/ \E i \in live : HashForSigning(t, i)
    \/ \E i \in live, v \in SigPool : WithSignature(t, i, v)
    \/ \E i \in live : SignerNotSigned(t, i)
    \/ \E i \in live : SignerCached(t, i)
    \/ \E i \in live : SignerRecoverFails(t, i)
    \/ \E i \in live : SignerRecovers(t, i)
    \/ SignerAddressVisible(t)
    \/ SignerCacheVisible(t)
    \/ SignerReturn(t)
    \/ \E i \in live : EncodeRLP(t, i)
    \/ \E i \in Inst, b \in Streams : DecodeRLP(t, i, b)

\* One goroutine: every call returns before the next starts.
Next == Step(1) \/ CallerWrite

Spec == Init /\ [][Next]_vars

\* A signed header that several goroutines share.
InitConc ==
    /\ live = {1}
    /\ hdr = [i \in Inst |-> IF i = 1 THEN HeaderOf(BaseContent, 1) ELSE ZeroHeader]
    /\ bufs = [b \in {CallerBuf} \cup Inst |-> IF b = 1 THEN GoodSig ELSE <<>>]
    /\ hobj = [p \in Inst \X Threads |-> <<>>]
    /\ sobj = [p \in Inst \X Threads |-> <<>>]
    /\ th = [t \in Threads |-> Idle]
    /\ ret = [t \in Threads |-> NoRet]
    /\ hashWrites = [i \in Inst |-> 0]
    /\ signerWrites = [i \in Inst |-> 0]
    /\ decodes = 0

\* The calls that read or write the caches, by goroutine t.
ConcStep(t) ==
    \/ \E i \in live : HashCached(t, i)
    \/ \E i \in live : HashMiss(t, i)
    \/ HashSumVisible(t)
    \/ HashNumberVisible(t)
    \/ HashCacheVisible(t)
    \/ HashReturn(t)
    \/ \E i \in live : SignerCached(t, i)
    \/ \E i \in live : SignerRecovers(t, i)
    \/ SignerAddressVisible(t)
    \/ SignerCacheVisible(t)
    \/ SignerReturn(t)

\* Several goroutines calling Hash and Signer on the same header, with no
\* synchronisation between them.
NextConc == \E t \in Threads : ConcStep(t)

SpecConc == InitConc /\ [][NextConc]_vars

\* ------------------------------------------------------------------ claims
\* The number a header with content c must have: 0 for an all-zero parent hash,
\* else the big-endian value of the parent hash's first 4 bytes plus 1 in uint32
\* arithmetic, as the pair of its 16-bit halves.
ExpectedNumber(c) ==
    IF c.ParentHash = Rep(0, HashLength) THEN <<0, 0>>
    ELSE LET hi == c.ParentHash[1] * 256 + c.ParentHash[2]
             lo == c.ParentHash[3] * 256 + c.ParentHash[4]
         IN  IF lo < 65535 THEN <<hi, lo + 1>> ELSE <<(hi + 1) % 65536, 0>>

\* C1: the first 4 bytes of every value Hash() returns are the big-endian
\* encoding of the header's number (0 for an all-zero parent hash, else the
\* parent's number plus 1 as a uint32), the other 28 bytes are those of the
\* digest of the encoded content; Number() returns that number.
C1_NumberEmbedding ==
    \A t \in Threads :
        LET c == ContentVal(ret[t].h)
            v == ret[t].val
        IN  /\ ret[t].op = "Hash" =>
                 /\ Len(v) = HashLength
                 /\ <<v[1] * 256 + v[2], v[3] * 256 + v[4]>> = ExpectedNumber(c)
                 /\ SubSeq(v, 5, HashLength)
                        = SubSeq(Keccak(RlpEncodeContent(c)), 5, HashLength)
            /\ ret[t].op = "Number" => <<v.hi, v.lo>> = ExpectedNumber(c)

\* C1 witness: Hash() returned on a header of number 2 whose digest does not
\* start with its number.
C1_Witness ==
    \E t \in Threads :
        /\ ret[t].op = "Hash"
        /\ ExpectedNumber(ContentVal(ret[t].h)) = <<0, 2>>
        /\ SubSeq(Keccak(RlpEncodeContent(ContentVal(ret[t].h))), 1, 4) # <<0, 0, 0, 2>>

\* C2 as stated: whenever Hash() of a header p returned a value that is the
\* parent hash of a header c, c.Number() = p.Number() + 1.
C2_Original ==
    \A t \in Threads : \A c \in live :
        (ret[t].op = "Hash" /\ ContentVal(c).ParentHash = ret[t].val)
            => HeaderNumber(hdr[c].content) = U32Inc(HeaderNumber(hdr[ret[t].h].content))

\* C2 amended: the same, for every parent whose Hash() is not the all-zero hash.
C2_ChainConsistency ==
    \A t \in Threads : \A c \in live :
        (ret[t].op = "Hash" /\ ret[t].val # Rep(0, HashLength)
            /\ ContentVal(c).ParentHash = ret[t].val)
            => HeaderNumber(hdr[c].content) = U32Inc(HeaderNumber(hdr[ret[t].h].content))

\* C2 witness: three generations, a genesis g whose cached hash is the parent hash
\* of p, and Hash() of p just returned the parent hash of c, whose number is 2.
C2_Witness ==
    \E t \in Threads : \E g \in live, c \in live :
        /\ ret[t].op = "Hash" /\ ret[t].val # Rep(0, HashLength)
        /\ ContentVal(g).ParentHash = Rep(0, HashLength)
        /\ hdr[g].hash # NilPtr
        /\ hobj[hdr[g].hash] = ContentVal(ret[t].h).ParentHash
        /\ ContentVal(c).ParentHash = ret[t].val
        /\ HeaderNumber(hdr[c].content) = [hi |-> 0, lo |-> 2]

SameButScoreAndSignature(a, b) ==
    [a EXCEPT !.TotalScore = 0, !.Signature = <<>>]
        = [b EXCEPT !.TotalScore = 0, !.Signature = <<>>]

C4_WithSignatureFresh ==
    [][ /\ \A t \in Threads, i \in Inst, v \in SigPool :
              (ret'[t].op = "WithSignature" /\ WithSignature(t, i, v)) =>
                  \E j \in Inst :
                      /\ j = Fresh
                      /\ j \notin live /\ j # i
                      /\ \A k \in live : hdr'[k] = hdr[k] /\ ContentVal(k)' = ContentVal(k)
                      /\ hobj' = hobj /\ sobj' = sobj
                      /\ ContentVal(j)' = [ContentVal(i) EXCEPT !.Signature = v]
                      /\ hdr'[j].hash = NilPtr /\ hdr'[j].signer = NilPtr
                      /\ hdr'[j].content.Signature
                             \notin {CallerBuf, hdr[i].content.Signature} \ {NilBuf}
        /\ CallerWrite => \A k \in live : ContentVal(k)' = ContentVal(k)
      ]_vars

\* C4 witness: WithSignature returned a header on a receiver whose hash is cached,
\* and the caller has since overwritten the slice it passed.
C4_Witness ==
    \E t \in Threads :
        /\ ret[t].op = "WithSignature"
        /\ hdr[ret[t].h].hash # NilPtr
        /\ hdr[ret[t].val[1]].hash = NilPtr
        /\ ContentVal(ret[t].val[1]).Signature = GoodSig
        /\ bufs[CallerBuf] = <<0, 0>>

C6_NeverStale ==
    /\ \A t \in Threads :
          /\ ret[t].op = "Hash" => ret[t].val = ComputeHash(ContentVal(ret[t].h))
          /\ (ret[t].op = "Signer" /\ ret[t].err = "")
                => ret[t].val = Recovered(ret[t].h).addr
    /\ \A i \in live :
          (\A t \in Threads : th[t].h # i) =>
              /\ hdr[i].hash # NilPtr => hobj[hdr[i].hash] = ComputeHash(ContentVal(i))
              /\ hdr[i].signer # NilPtr => sobj[hdr[i].signer] = Recovered(i).addr

\* C9 as stated: the hash slot and the signer slot of a header are each assigned
\* at most once, and all callers of Hash (of Signer) on a header get the same value.
C9_WrittenOnce ==
    /\ \A i \in live : hashWrites[i] <= 1 /\ signerWrites[i] <= 1
    /\ \A t \in Threads, u \in Threads :
          (ret[t].op = ret[u].op /\ ret[t].op \in {"Hash", "Signer"} /\ ret[t].h = ret[u].h)
              => ret[t].val = ret[u].val

\* C7: Signer() on a header with an empty signature returns the "not signed"
\* error and no account, without running recovery, and the signer cache of such
\* a header is nil and was never assigned.
C7_UnsignedError ==
    \A t \in Threads :
        (ret[t].op = "Signer" /\ Len(ContentVal(ret[t].h).Signature) = 0) =>
            /\ ret[t].err = "not signed"
            /\ ret[t].val = <<>> /\ ret[t].ptr = NilPtr
            /\ ~ret[t].recovered
            /\ hdr[ret[t].h].signer = NilPtr
            /\ signerWrites[ret[t].h] = 0

\* C7 witness: Signer() failed with "not signed" on a header whose hash is cached.
C7_Witness ==
    \E t \in Threads :
        /\ ret[t].op = "Signer" /\ ret[t].err = "not signed"
        /\ hdr[ret[t].h].hash # NilPtr

\* Whether header i is signed and recovery from its signing hash and signature fails.
RecoveryFails(i) ==
    /\ ContentVal(i).Signature # <<>>
    /\ ~DsaSigner(Keccak(RlpList(SigningItems(ContentVal(i)))), ContentVal(i).Signature).ok

\* C8: a Signer() call whose recovery fails returns the error and no account and
\* leaves every header and cached object as it was; every Signer() call on a
\* header whose recovery fails has run recovery and returned the error; the signer
\* cache is assigned only to a header whose recovery succeeds; the pointer
\* Signer() returns beside a nil error is no header's cached pointer.
C8_RecoveryFailure ==
    [][ /\ \A t \in Threads, i \in live :
              (ret'[t].op = "Signer" /\ SignerRecoverFails(t, i)) =>
                  /\ RecoveryFails(i)
                  /\ ret'[t].err = "recovery failed" /\ ret'[t].val = <<>>
                  /\ ret'[t].ptr = NilPtr /\ ret'[t].recovered
                  /\ UNCHANGED <<live, hdr, bufs, hobj, sobj, signerWrites>>
        /\ \A t \in Threads, i \in live :
              (ret'[t].op = "Signer" /\ ret'[t].h = i /\ RecoveryFails(i))
                  => ret'[t].recovered /\ ret'[t].err = "recovery failed"
        /\ \A i \in live :
              (hdr'[i].signer # hdr[i].signer /\ hdr'[i].signer # NilPtr)
                  => ~RecoveryFails(i)
        /\ \A t \in Threads :
              (ret'[t].op = "Signer" /\ ret'[t].err = "")
                  => /\ ret'[t].ptr # NilPtr
                     /\ \A k \in Inst : ret'[t].ptr # hdr'[k].signer
      ]_vars

\* C8 witness: Signer() failed in recovery on a header whose hash is cached.
C8_Witness ==
    \E t \in Threads :
        /\ ret[t].op = "Signer" /\ ret[t].err = "recovery failed" /\ ret[t].recovered
        /\ hdr[ret[t].h].hash # NilPtr /\ hdr[ret[t].h].signer = NilPtr

\* C10: EncodeRLP writes the encoding of the content alone, the same bytes for
\* every header of that content whatever its caches hold, and changes nothing;
\* DecodeRLP of bytes EncodeRLP wrote gives the target the encoded header's
\* content and nil caches; DecodeRLP of bytes that are no header returns the
\* error and leaves the target as it was.
C10_RoundTrip ==
    [][\A t \in Threads, i \in Inst :
          /\ (ret'[t].op = "EncodeRLP" /\ EncodeRLP(t, i)) =>
                /\ ret'[t].val = RlpEncodeContent(ContentVal(i))
                /\ \A j \in live :
                      ContentVal(j) = ContentVal(i)
                          => EncodeHeader(hdr[j], SigBytes(hdr[j].content.Signature))
                                 = ret'[t].val
                /\ UNCHANGED <<live, hdr, bufs, hobj, sobj>>
          /\ \A b \in Streams :
                (ret'[t].op = "DecodeRLP" /\ DecodeRLP(t, i, b)) =>
                    IF b \in Malformed
                    THEN /\ ret'[t].err = "codec"
                         /\ UNCHANGED <<hdr, bufs, hobj, sobj>>
                    ELSE /\ ret'[t].err = ""
                         /\ \A u \in Threads :
                               (ret[u].op = "EncodeRLP" /\ ret[u].val = b)
                                   => ContentVal(i)' = ContentVal(ret[u].h)
                         /\ hdr'[i].hash = NilPtr /\ hdr'[i].signer = NilPtr
                         /\ \A k \in live \ {i} : hdr'[k] = hdr[k]]_vars

\* C10 witness: after a WithSignature call, DecodeRLP succeeded on the bytes of
\* a header whose hash is cached: the target has that header's content and nil
\* caches.
C10_Witness ==
    \E t \in Threads : \E j \in live :
        /\ ret[t].op = "DecodeRLP" /\ ret[t].err = ""
        /\ j # ret[t].h
        /\ ContentVal(j) = ContentVal(ret[t].h)
        /\ hdr[j].hash # NilPtr
        /\ hdr[ret[t].h].hash = NilPtr /\ hdr[ret[t].h].signer = NilPtr
        /\ bufs[CallerBuf] # <<>>
=============================================================================
